---- MODULE Spec2Model ----
(***************************************************************************)
(* eg-bdf: BDF bitmap fonts on an embedded-graphics draw target.           *)
(*   src/eg-bdf/src/lib.rs   BdfFont::get_glyph, BdfGlyph::draw            *)
(*   src/eg-bdf/src/text.rs  BdfTextStyle (builders, setters, draw_string, *)
(*                           measure_string, line_height, decorations)     *)
(* Sequences are 1-based here; the 0-based indices of the code             *)
(* (replacement_character, start_index, found_idx) keep their 0-based      *)
(* values and are shifted by one where a sequence is indexed.              *)
(***************************************************************************)
EXTENDS Integers, Sequences, FiniteSets, TLC

VARIABLES font, style, target, op, ret

vars == <<font, style, target, op, ret>>

(***************************************************************************)
(* Bounds of the model.                                                    *)
(***************************************************************************)
\* characters of the lookup tables are 1..MaxChar; MaxChar + 1 is never in a table
MaxChar == 5
\* longest glyph table of the lookup specification
MaxGlyphs == 4
\* longest text handed to draw_string / measure_string
MaxLen == 2
\* the target fails on its k-th write, k in 1..MaxFail (0: it never fails)
MaxFail == 5
\* largest magnitude of the ordinary height adjustments
MaxAdjust == 9
\* largest start_index (bit offset) of the glyph-blit specification
MaxStart == 9
\* largest width and height of a glyph bounding box in the glyph-blit specification
MaxDim == 2

\* i32::MAX: height_adjust is an i32 (text.rs:30)
I32Max == 2147483647

(***************************************************************************)
(* Values of the embedded-graphics types the code uses.                    *)
(***************************************************************************)
Point(x, y) == [x |-> x, y |-> y]

Size(w, h) == [width |-> w, height |-> h]

Rectangle(top_left, size) == [top_left |-> top_left, size |-> size]

None == <<"None">>

Some(v) == <<"Some", v>>

TextColor == <<"TextColor">>

Custom(c) == <<"Custom", c>>

Ok(v) == <<"Ok", v>>

Err(e) == <<"Err", e>>

Colors == {0, 1}

Baselines == {"Top", "Middle", "Alphabetic", "Bottom"}

OptionColors == {None} \cup {Some(c) : c \in Colors}

DecorationColors == {None, TextColor} \cup {Custom(c) : c \in Colors}

Min(a, b) == IF a <= b THEN a ELSE b

Max(a, b) == IF a >= b THEN a ELSE b

\* Rust's integer division: the quotient is truncated toward zero
TruncDiv(a, b) == IF a >= 0 THEN a \div b ELSE -((-a) \div b)

\* Rust's wrapping i32 addition (release build), computed without leaving 32 bits
WrappingAddI32(a, b) ==
    IF b > 0 /\ a > I32Max - b THEN ((a - I32Max) - 1) + ((b - I32Max) - 1)
    ELSE IF b < 0 /\ a < ((-I32Max) - 1) - b THEN ((a + I32Max) + 1) + ((b + I32Max) + 1)
    ELSE a + b

(***************************************************************************)
(* BdfFont and BdfGlyph (lib.rs:13-47).                                    *)
(***************************************************************************)
BdfGlyph(character, bounding_box, device_width, start_index) ==
    [character |-> character, bounding_box |-> bounding_box,
     device_width |-> device_width, start_index |-> start_index]

BdfFont(replacement_character, glyphs, data, font_ascent, font_descent) ==
    [replacement_character |-> replacement_character, glyphs |-> glyphs, data |-> data,
     pixel_size |-> font_ascent + font_descent,
     font_ascent |-> font_ascent, font_descent |-> font_descent]

\* slice::binary_search_by with the comparator g.character.cmp(&c): the loop over
\* [left, right) probing mid = left + size / 2; Ok(mid) on Equal, Err(left) at the end
RECURSIVE binary_search_by(_, _, _, _)
binary_search_by(glyphs, c, left, right) ==
    IF left < right
    THEN LET mid == left + ((right - left) \div 2)
             ch == glyphs[mid + 1].character
         IN  IF ch = c THEN Ok(mid)
             ELSE IF ch < c THEN binary_search_by(glyphs, c, mid + 1, right)
             ELSE binary_search_by(glyphs, c, left, mid)
    ELSE Err(left)

\* mutant: the fallback is the first glyph of the table, not the replacement glyph
get_glyph_first(f, c) ==
    LET found == binary_search_by(f.glyphs, c, 0, Len(f.glyphs))
    IN  IF found[1] = "Ok" THEN f.glyphs[found[2] + 1] ELSE f.glyphs[1]

\* BdfFont::get_glyph
get_glyph(f, c) ==
    LET found == binary_search_by(f.glyphs, c, 0, Len(f.glyphs))
    IN  IF found[1] = "Ok" THEN f.glyphs[found[2] + 1]
        ELSE f.glyphs[f.replacement_character + 1]

(***************************************************************************)
(* The draw target: an external collaborator with two fallible operations, *)
(* a batched pixel write and a solid rectangle fill.  The model is a       *)
(* recording target that fails on its fail_at-th write (never, when        *)
(* fail_at = 0): count is the number of writes attempted so far, writes    *)
(* the ones that were recorded.                                            *)
(***************************************************************************)
NewTarget(fail_at) == [writes |-> <<>>, count |-> 0, fail_at |-> fail_at]

Pixel(p, color) == [kind |-> "pixel", p |-> p, color |-> color]

Fill(area, color) == [kind |-> "fill", area |-> area, color |-> color]

\* one write on the target: recorded, or refused when it is the fail_at-th
TargetWrite(t, w) ==
    IF t.count + 1 = t.fail_at
    THEN [t |-> [t EXCEPT !.count = t.count + 1], ok |-> FALSE]
    ELSE [t |-> [t EXCEPT !.count = t.count + 1, !.writes = Append(t.writes, w)],
          ok |-> TRUE]

\* DrawTarget::draw_iter: the pixels are written in order, the first failure ends the batch
RECURSIVE draw_iter(_, _)
draw_iter(t, pixels) ==
    IF pixels = <<>> THEN [t |-> t, ok |-> TRUE]
    ELSE LET r == TargetWrite(t, Head(pixels))
         IN  IF r.ok THEN draw_iter(r.t, Tail(pixels)) ELSE r

\* DrawTarget::fill_solid
fill_solid(t, area, color) == TargetWrite(t, Fill(area, color))

(***************************************************************************)
(* BdfGlyph::draw (lib.rs:49-79).                                          *)
(***************************************************************************)
Pow2(n) == IF n = 0 THEN 1 ELSE IF n = 1 THEN 2 ELSE IF n = 2 THEN 4 ELSE IF n = 3 THEN 8
           ELSE IF n = 4 THEN 16 ELSE IF n = 5 THEN 32 ELSE IF n = 6 THEN 64 ELSE 128

\* mutant: the bits of a byte are taken least-significant first
RawBitLsb(data, index) == (data[(index \div 8) + 1] \div Pow2(index % 8)) % 2

\* item `index` of RawDataSlice::<RawU1, LittleEndian>::new(data).into_iter(): for a
\* 1-bit raw type the iterator takes the byte index >> 3 and shifts it right by
\* 7 - (index & 7); the byte-order parameter plays no part below 8 bits per pixel
RawBit(data, index) == (data[(index \div 8) + 1] \div Pow2(7 - (index % 8))) % 2

\* how many items the iterator still yields after data_iter.nth(start_index - 1)
BitsLeft(data, start_index) == Max(0, (8 * Len(data)) - start_index)

\* Rectangle::translate
translate(r, by) == Rectangle(Point(r.top_left.x + by.x, r.top_left.y + by.y), r.size)

\* number of points Rectangle::points yields (none for a zero-sized rectangle)
NumPoints(r) == r.size.width * r.size.height

\* the i-th (0-based) point of Rectangle::points: row-major from the top left
PointAt(r, i) == Point(r.top_left.x + (i % r.size.width), r.top_left.y + (i \div r.size.width))

\* the (point, bit) pairs of bounding_box.translate(position).points().zip(data_iter)
Zip(glyph, position, data) ==
    LET box == translate(glyph.bounding_box, position)
        n   == Min(NumPoints(box), BitsLeft(data, glyph.start_index))
    IN  [i \in 1..n |-> [p |-> PointAt(box, i - 1),
                         c |-> RawBit(data, glyph.start_index + (i - 1))]]

RECURSIVE SelectSeq2(_, _)
\* Iterator::filter on a sequence of (point, bit) pairs: the pairs whose bit is `bit`
SelectSeq2(zip, bit) ==
    IF zip = <<>> THEN <<>>
    ELSE IF Head(zip).c = bit THEN <<Head(zip)>> \o SelectSeq2(Tail(zip), bit)
    ELSE SelectSeq2(Tail(zip), bit)

\* the Pixel iterator BdfGlyph::draw hands to the target (lib.rs:69-77)
GlyphPixels(glyph, position, color, bg_color, data) ==
    LET zip == Zip(glyph, position, data)
    IN  IF bg_color[1] = "Some"
        THEN [i \in 1..Len(zip) |->
                 Pixel(zip[i].p, IF zip[i].c = 1 THEN color ELSE bg_color[2])]
        ELSE LET set == SelectSeq2(zip, 1)
             IN  [i \in 1..Len(set) |-> Pixel(set[i].p, color)]

\* BdfGlyph::draw
glyph_draw(glyph, position, color, bg_color, data, t) ==
    draw_iter(t, GlyphPixels(glyph, position, color, bg_color, data))

(***************************************************************************)
(* BdfTextStyle (text.rs:12-134, 223-225).  `style` is the style value and *)
(* `font` the font it borrows; the methods read them as the code reads     *)
(* self and self.font.                                                     *)
(***************************************************************************)
\* BdfTextStyle::new
new(color) ==
    [text_color |-> color, background_color |-> None, height_adjust |-> 0,
     underline_color |-> None, strikethrough_color |-> None]

\* BdfTextStyle::line_height: (font_ascent as i32 + height_adjust).max(0) as u32; the
\* i32 addition wraps on overflow (release build; a debug build panics there)
line_height == Max(WrappingAddI32(font.font_ascent, style.height_adjust), 0)

\* mutant: the Middle offset is rounded down instead of truncated toward zero
baseline_offset_floor(baseline) ==
    CASE baseline = "Top" -> -(line_height - 1)
      [] baseline = "Middle" -> (-(line_height - 1)) \div 2
      [] baseline = "Alphabetic" -> 0
      [] baseline = "Bottom" -> font.font_descent

\* BdfTextStyle::baseline_offset
baseline_offset(baseline) ==
    CASE baseline = "Top" -> -(line_height - 1)
      [] baseline = "Middle" -> TruncDiv(-(line_height - 1), 2)
      [] baseline = "Alphabetic" -> 0
      [] baseline = "Bottom" -> font.font_descent

\* mutant: "use text colour" is resolved to a colour other than the current text colour,
\* as a copy taken before the text colour was last set would be
decoration_color_stale(dc) ==
    CASE dc[1] = "TextColor" -> Some(1 - style.text_color)
      [] dc[1] = "Custom" -> Some(dc[2])
      [] dc[1] = "None" -> None

\* BdfTextStyle::decoration_color_to_color
decoration_color_to_color(dc) ==
    CASE dc[1] = "TextColor" -> Some(style.text_color)
      [] dc[1] = "Custom" -> Some(dc[2])
      [] dc[1] = "None" -> None

\* mutant: the underline is filled on the baseline row itself
draw_decorations_on_baseline(t, width, position) ==
    LET st == decoration_color_to_color(style.strikethrough_color)
        r1 == IF st[1] = "Some"
              THEN fill_solid(t, Rectangle(Point(position.x,
                                  position.y + baseline_offset("Middle") + 1),
                                  Size(width, 1)), st[2])
              ELSE [t |-> t, ok |-> TRUE]
        ul == decoration_color_to_color(style.underline_color)
    IN  IF ~r1.ok THEN r1
        ELSE IF ul[1] = "Some"
        THEN fill_solid(r1.t, Rectangle(Point(position.x,
                              position.y + baseline_offset("Alphabetic")),
                              Size(width, 1)), ul[2])
        ELSE r1

\* mutant: a failed strikethrough fill is dropped and the underline is filled anyway
draw_decorations_ignore_error(t, width, position) ==
    LET st == decoration_color_to_color(style.strikethrough_color)
        r1 == IF st[1] = "Some"
              THEN fill_solid(t, Rectangle(Point(position.x,
                                  position.y + baseline_offset("Middle") + 1),
                                  Size(width, 1)), st[2])
              ELSE [t |-> t, ok |-> TRUE]
        ul == decoration_color_to_color(style.underline_color)
    IN  IF ul[1] = "Some"
        THEN fill_solid(r1.t, Rectangle(Point(position.x,
                              position.y + baseline_offset("Alphabetic") + 1),
                              Size(width, 1)), ul[2])
        ELSE r1

\* BdfTextStyle::draw_decorations: the strikethrough fill, then (unless that failed)
\* the underline fill
draw_decorations(t, width, position) ==
    LET st == decoration_color_to_color(style.strikethrough_color)
        r1 == IF st[1] = "Some"
              THEN fill_solid(t, Rectangle(Point(position.x,
                                  position.y + baseline_offset("Middle") + 1),
                                  Size(width, 1)), st[2])
              ELSE [t |-> t, ok |-> TRUE]
        ul == decoration_color_to_color(style.underline_color)
    IN  IF ~r1.ok THEN r1
        ELSE IF ul[1] = "Some"
        THEN fill_solid(r1.t, Rectangle(Point(position.x,
                              position.y + baseline_offset("Alphabetic") + 1),
                              Size(width, 1)), ul[2])
        ELSE r1

(***************************************************************************)
(* impl TextRenderer for BdfTextStyle (text.rs:158-226).                   *)
(***************************************************************************)
RECURSIVE DrawLoopAdvanceFirst(_, _, _, _)
\* mutant: the cursor is advanced before the decorations of the character are drawn
DrawLoopAdvanceFirst(text, i, position, t) ==
    IF i > Len(text) THEN [t |-> t, result |-> Ok(position)]
    ELSE LET glyph == get_glyph(font, text[i])
             r1    == glyph_draw(glyph, position, style.text_color,
                                 style.background_color, font.data, t)
             next  == Point(position.x + glyph.device_width, position.y)
         IN  IF ~r1.ok THEN [t |-> r1.t, result |-> Err("TargetError")]
             ELSE LET r2 == draw_decorations(r1.t, glyph.device_width, next)
                  IN  IF ~r2.ok THEN [t |-> r2.t, result |-> Err("TargetError")]
                      ELSE DrawLoopAdvanceFirst(text, i + 1, next, r2.t)

RECURSIVE DrawLoop(_, _, _, _)
\* the loop of draw_string from character i on (text.rs:173-187): the glyph, its
\* decorations, then the advance; `?` returns the target's error at once
DrawLoop(text, i, position, t) ==
    IF i > Len(text) THEN [t |-> t, result |-> Ok(position)]
    ELSE LET glyph == get_glyph(font, text[i])
             r1    == glyph_draw(glyph, position, style.text_color,
                                 style.background_color, font.data, t)
         IN  IF ~r1.ok THEN [t |-> r1.t, result |-> Err("TargetError")]
             ELSE LET r2 == draw_decorations(r1.t, glyph.device_width, position)
                  IN  IF ~r2.ok THEN [t |-> r2.t, result |-> Err("TargetError")]
                      ELSE DrawLoop(text, i + 1,
                                    Point(position.x + glyph.device_width, position.y),
                                    r2.t)

\* BdfTextStyle::draw_string
draw_string(text, position, baseline, t) ==
    DrawLoop(text, 1, Point(position.x, position.y - baseline_offset(baseline)), t)

\* BdfTextStyle::draw_whitespace
draw_whitespace(width, position) == Ok(Point(position.x + width, position.y))

RECURSIVE StringWidthOfBoxes(_, _)
\* mutant: the widths of the glyph bitmaps are summed instead of the advances
StringWidthOfBoxes(text, i) ==
    IF i > Len(text) THEN 0
    ELSE get_glyph(font, text[i]).bounding_box.size.width + StringWidthOfBoxes(text, i + 1)

RECURSIVE StringWidth(_, _)
\* text.chars().map(|c| self.font.get_glyph(c).device_width).sum(), from character i on
StringWidth(text, i) ==
    IF i > Len(text) THEN 0
    ELSE get_glyph(font, text[i]).device_width + StringWidth(text, i + 1)

\* BdfTextStyle::measure_string
measure_string(text, position, baseline) ==
    LET string_width == StringWidth(text, 1)
        height       == line_height
        full_height  == height + font.font_descent
        pos_adj      == Point(position.x, position.y - (baseline_offset(baseline) + height))
        size         == Size(string_width, full_height)
    IN  [bounding_box |-> Rectangle(pos_adj, size),
         next_position |-> Point(position.x + size.width, position.y)]

(***************************************************************************)
(* Fonts and inputs of the bounded runs.                                   *)
(***************************************************************************)
\* ascent 8, descent 2; glyphs for the characters 1 and 3, the latter the replacement.
\* Character 1 advances by 7 and its bitmap (1 x 10, bits 1000000001) spans the rows
\* from the ascent to the descent; character 3 is 2 x 2 with bits 1001.
FontA ==
    BdfFont(1,
            <<BdfGlyph(1, Rectangle(Point(0, -8), Size(1, 10)), 7, 0),
              BdfGlyph(3, Rectangle(Point(1, -2), Size(2, 2)), 3, 10)>>,
            <<128, 100>>, 8, 2)

\* ascent 3, descent 1; glyphs for the characters 2 and 3, the former the replacement.
\* Character 2 is 1 x 4 with bits 1001, character 3 is 2 x 2 with bits 0110.
FontB ==
    BdfFont(0,
            <<BdfGlyph(2, Rectangle(Point(0, -3), Size(1, 4)), 2, 0),
              BdfGlyph(3, Rectangle(Point(1, -3), Size(2, 2)), 4, 4)>>,
            <<150>>, 3, 1)

Fonts == {FontA, FontB}

\* the characters texts are made of: each font has a glyph for one of them only
TextChars == {1, 2}

\* all texts of a given length, and of up to a given length
TextsOfLen(n) == [1..n -> TextChars]

TextsUpTo(n) == UNION {TextsOfLen(k) : k \in 0..n}

Positions == {Point(0, 0), Point(4, -3)}

\* height adjustments, down to below -font_ascent of either font
HeightAdjusts == {-MaxAdjust, -1, 0, 1}

\* the styles the drawing specification starts from: every one is reached from
\* new(1) by with_bg_color, set_underline_color, set_strikethrough_color and
\* with_height_adjust
DrawStyles ==
    {[text_color |-> 1, background_color |-> bg, height_adjust |-> h,
      underline_color |-> ul, strikethrough_color |-> st] :
        bg \in {None, Some(0)}, h \in HeightAdjusts,
        ul \in {None, TextColor, Custom(0)}, st \in {None, TextColor, Custom(0)}}

Idle == [name |-> "idle"]

(***************************************************************************)
(* Operations on a style.  A call is made on an idle style and leaves its  *)
(* arguments in op, its result in ret and the target it drew on in target; *)
(* Discard is the caller dropping them before the next operation.          *)
(***************************************************************************)
\* BdfTextStyle::with_bg_color
with_bg_color(bg_color) ==
    /\ op = Idle
    /\ style' = [style EXCEPT !.background_color = Some(bg_color)]
    /\ UNCHANGED <<font, target, op, ret>>

\* BdfTextStyle::strikethrough
strikethrough ==
    /\ op = Idle
    /\ style' = [style EXCEPT !.strikethrough_color = TextColor]
    /\ UNCHANGED <<font, target, op, ret>>

\* BdfTextStyle::reset_strikethrough
reset_strikethrough ==
    /\ op = Idle
    /\ style' = [style EXCEPT !.strikethrough_color = None]
    /\ UNCHANGED <<font, target, op, ret>>

\* BdfTextStyle::underline
underline ==
    /\ op = Idle
    /\ style' = [style EXCEPT !.underline_color = TextColor]
    /\ UNCHANGED <<font, target, op, ret>>

\* BdfTextStyle::reset_underline
reset_underline ==
    /\ op = Idle
    /\ style' = [style EXCEPT !.underline_color = None]
    /\ UNCHANGED <<font, target, op, ret>>

\* BdfTextStyle::with_height_adjust
with_height_adjust(height_adjust) ==
    /\ op = Idle
    /\ style' = [style EXCEPT !.height_adjust = height_adjust]
    /\ UNCHANGED <<font, target, op, ret>>

\* BdfTextStyle::set_height_adjust
set_height_adjust(height_adjust) ==
    /\ op = Idle
    /\ style' = [style EXCEPT !.height_adjust = height_adjust]
    /\ UNCHANGED <<font, target, op, ret>>

\* CharacterStyle::set_text_color: None leaves the text colour as it is
set_text_color(text_color) ==
    /\ op = Idle
    /\ style' = IF text_color[1] = "Some"
                THEN [style EXCEPT !.text_color = text_color[2]]
                ELSE style
    /\ UNCHANGED <<font, target, op, ret>>

\* CharacterStyle::set_background_color
set_background_color(background_color) ==
    /\ op = Idle
    /\ style' = [style EXCEPT !.background_color = background_color]
    /\ UNCHANGED <<font, target, op, ret>>

\* CharacterStyle::set_underline_color
set_underline_color(underline_color) ==
    /\ op = Idle
    /\ style' = [style EXCEPT !.underline_color = underline_color]
    /\ UNCHANGED <<font, target, op, ret>>

\* CharacterStyle::set_strikethrough_color
set_strikethrough_color(strikethrough_color) ==
    /\ op = Idle
    /\ style' = [style EXCEPT !.strikethrough_color = strikethrough_color]
    /\ UNCHANGED <<font, target, op, ret>>

\* a call of draw_string on a fresh target that fails on its fail_at-th write
CallDrawString(text, position, baseline, fail_at) ==
    /\ op = Idle
    /\ LET r == draw_string(text, position, baseline, NewTarget(fail_at))
       IN  /\ target' = r.t
           /\ ret' = r.result
    /\ op' = [name |-> "draw_string", text |-> text, position |-> position,
              baseline |-> baseline]
    /\ UNCHANGED <<font, style>>

\* a call of measure_string
CallMeasureString(text, position, baseline) ==
    /\ op = Idle
    /\ ret' = measure_string(text, position, baseline)
    /\ op' = [name |-> "measure_string", text |-> text, position |-> position,
              baseline |-> baseline]
    /\ UNCHANGED <<font, style, target>>

\* a call of draw_whitespace
CallDrawWhitespace(width, position) ==
    /\ op = Idle
    /\ ret' = draw_whitespace(width, position)
    /\ op' = [name |-> "draw_whitespace", width |-> width, position |-> position]
    /\ UNCHANGED <<font, style, target>>

\* a call of line_height
CallLineHeight ==
    /\ op = Idle
    /\ ret' = line_height
    /\ op' = [name |-> "line_height"]
    /\ UNCHANGED <<font, style, target>>

\* a call of BdfFont::get_glyph
CallGetGlyph(c) ==
    /\ op = Idle
    /\ ret' = get_glyph(font, c)
    /\ op' = [name |-> "get_glyph", c |-> c]
    /\ UNCHANGED <<font, style, target>>

\* a call of BdfGlyph::draw for the first glyph of the font, on a fresh target
CallGlyphDraw(position, color, bg_color, fail_at) ==
    /\ op = Idle
    /\ LET r == glyph_draw(font.glyphs[1], position, color, bg_color, font.data,
                           NewTarget(fail_at))
       IN  /\ target' = r.t
           /\ ret' = IF r.ok THEN Ok(<<>>) ELSE Err("TargetError")
    /\ op' = [name |-> "glyph_draw", position |-> position, color |-> color,
              bg_color |-> bg_color]
    /\ UNCHANGED <<font, style>>

\* the caller drops the result and the target of the last call
Discard ==
    /\ op # Idle
    /\ op' = Idle
    /\ ret' = <<>>
    /\ target' = NewTarget(0)
    /\ UNCHANGED <<font, style>>

(***************************************************************************)
(* Spec: a style from new() on, under every builder and setter, with       *)
(* one-character calls between them.                                       *)
(***************************************************************************)
\* the height adjustments the builders are given: the ordinary ones and the ends of i32
AllHeightAdjusts == HeightAdjusts \cup {I32Max, (-I32Max) - 1}

Init ==
    /\ font \in Fonts
    /\ style \in {new(c) : c \in Colors}
    /\ target = NewTarget(0)
    /\ op = Idle
    /\ ret = <<>>

Next ==
    \/ \E c \in Colors : with_bg_color(c)
    \/ strikethrough
    \/ reset_strikethrough
    \/ underline
    \/ reset_underline
    \/ \E h \in AllHeightAdjusts : with_height_adjust(h)
    \/ \E h \in AllHeightAdjusts : set_height_adjust(h)
    \/ \E c \in OptionColors : set_text_color(c)
    \/ \E c \in OptionColors : set_background_color(c)
    \/ \E dc \in DecorationColors : set_underline_color(dc)
    \/ \E dc \in DecorationColors : set_strikethrough_color(dc)
    \/ \E text \in TextsOfLen(1), baseline \in Baselines :
           CallDrawString(text, Point(0, 0), baseline, 0)
    \/ \E text \in TextsOfLen(1), baseline \in Baselines :
           CallMeasureString(text, Point(0, 0), baseline)
    \/ \E width \in {0, 5} : CallDrawWhitespace(width, Point(0, 0))
    \/ CallLineHeight
    \/ Discard

Spec == Init /\ [][Next]_vars

(***************************************************************************)
(* SpecDraw: draw_string and measure_string as functions of the style, the *)
(* font, the text, the position, the baseline and the failing write.       *)
(***************************************************************************)
InitDraw ==
    /\ font \in Fonts
    /\ style \in DrawStyles
    /\ target = NewTarget(0)
    /\ op = Idle
    /\ ret = <<>>

NextDraw ==
    \/ \E text \in TextsUpTo(MaxLen), position \in Positions, baseline \in Baselines,
          fail_at \in 0..MaxFail :
           CallDrawString(text, position, baseline, fail_at)
    \/ \E text \in TextsUpTo(MaxLen), position \in Positions, baseline \in Baselines :
           CallMeasureString(text, position, baseline)
    \/ Discard

SpecDraw == InitDraw /\ [][NextDraw]_vars

(***************************************************************************)
(* SpecLookup: get_glyph on every sorted, duplicate-free table over the    *)
(* characters 1..MaxChar of up to MaxGlyphs glyphs, with every valid       *)
(* replacement index.                                                      *)
(***************************************************************************)
RECURSIVE SortedGlyphs(_)
\* the glyphs for a set of characters, ascending by character
SortedGlyphs(chars) ==
    IF chars = {} THEN <<>>
    ELSE LET m == CHOOSE x \in chars : \A y \in chars : x <= y
         IN  <<BdfGlyph(m, Rectangle(Point(0, -1), Size(1, 1)), m, 0)>>
             \o SortedGlyphs(chars \ {m})

LookupFonts ==
    UNION {{BdfFont(r, SortedGlyphs(chars), <<0>>, 1, 0) : r \in 0..(Cardinality(chars) - 1)} :
           chars \in {s \in SUBSET (1..MaxChar) : Cardinality(s) \in 1..MaxGlyphs}}

InitLookup ==
    /\ font \in LookupFonts
    /\ style = new(0)
    /\ target = NewTarget(0)
    /\ op = Idle
    /\ ret = <<>>

NextLookup ==
    \/ \E c \in 0..(MaxChar + 1) : CallGetGlyph(c)
    \/ Discard

SpecLookup == InitLookup /\ [][NextLookup]_vars

(***************************************************************************)
(* SpecGlyph: BdfGlyph::draw on two bytes of data, for every bounding box  *)
(* of up to MaxDim x MaxDim and every start_index up to MaxStart.          *)
(***************************************************************************)
\* 0x00, 0x35, 0x80, 0xff
GlyphBytes == {0, 53, 128, 255}

GlyphFonts ==
    {BdfFont(0, <<BdfGlyph(1, Rectangle(Point(0, -1), Size(w, h)), w, start)>>, data, 1, 0) :
        w \in 0..MaxDim, h \in 0..MaxDim, start \in 0..MaxStart,
        data \in [1..2 -> GlyphBytes]}

InitGlyph ==
    /\ font \in GlyphFonts
    /\ style = new(0)
    /\ target = NewTarget(0)
    /\ op = Idle
    /\ ret = <<>>

NextGlyph ==
    \/ \E position \in Positions, color \in Colors, bg_color \in OptionColors :
           CallGlyphDraw(position, color, bg_color, 0)
    \/ Discard

SpecGlyph == InitGlyph /\ [][NextGlyph]_vars

(***************************************************************************)
(* What the claims speak of.                                               *)
(***************************************************************************)
\* the table has a glyph for character c
HasGlyph(c) == \E i \in 1..Len(font.glyphs) : font.glyphs[i].character = c

\* the glyph a character resolves to: the one of that character, else the replacement
ResolvedGlyph(c) ==
    IF HasGlyph(c)
    THEN font.glyphs[CHOOSE i \in 1..Len(font.glyphs) : font.glyphs[i].character = c]
    ELSE font.glyphs[font.replacement_character + 1]

RECURSIVE AdvanceSum(_, _)
\* the sum of device_width over the resolved glyphs of the first n characters of text
AdvanceSum(text, n) ==
    IF n = 0 THEN 0
    ELSE AdvanceSum(text, n - 1) + ResolvedGlyph(text[n]).device_width

\* the glyph table is sorted ascending by character, without duplicates
SortedTable ==
    \A i, j \in 1..Len(font.glyphs) :
        i < j => font.glyphs[i].character < font.glyphs[j].character

(***************************************************************************)
(* C1 (SpecLookup).                                                        *)
(***************************************************************************)
\* C1: on a sorted, duplicate-free table with a valid replacement index, get_glyph(c)
\* returns the glyph whose character is c when the table has one, and exactly
\* glyphs[replacement_character] when it has none.
C1_LookupCorrect ==
    (op.name = "get_glyph" /\ SortedTable
        /\ font.replacement_character \in 0..(Len(font.glyphs) - 1))
    => IF HasGlyph(op.c)
       THEN /\ ret.character = op.c
            /\ \E i \in 1..Len(font.glyphs) : ret = font.glyphs[i]
       ELSE ret = font.glyphs[font.replacement_character + 1]

\* a miss between two table entries answered by a replacement glyph that is not the first
C1_Witness ==
    /\ op.name = "get_glyph"
    /\ Len(font.glyphs) >= 3
    /\ font.replacement_character = 2
    /\ ~HasGlyph(op.c)
    /\ font.glyphs[1].character < op.c
    /\ op.c < font.glyphs[Len(font.glyphs)].character
    /\ ret = font.glyphs[3]

(***************************************************************************)
(* C5 (SpecGlyph).                                                         *)
(***************************************************************************)
\* binary digit j of a byte: the coefficient of 2^j, j = 0 the least significant
Digit(byte, j) == (byte \div Pow2(j)) % 2

\* bit number k of the data, the bits of each byte counted from the most significant
\* ("msb") or from the least significant ("lsb") end
DataBit(order, k) ==
    LET byte == font.data[(k \div 8) + 1]
    IN  IF order = "msb" THEN Digit(byte, 7 - (k % 8)) ELSE Digit(byte, k % 8)

\* the blit rule for the glyph last drawn, under a bit order: when its bits fit in the
\* data, point i of the translated bounding box (row-major) goes with bit
\* start_index + i; with a background colour every point is written once, in the text
\* colour for a set bit and the background colour for a clear one; without, only the
\* points of the set bits are written, in order; the call succeeds.
BlitRule(order) ==
    LET g   == font.glyphs[1]
        box == translate(g.bounding_box, op.position)
        n   == g.bounding_box.size.width * g.bounding_box.size.height
        set == {i \in 0..(n - 1) : DataBit(order, g.start_index + i) = 1}
        w   == target.writes
    IN  (op.name = "glyph_draw" /\ g.start_index + n <= 8 * Len(font.data))
        => /\ ret = Ok(<<>>)
           /\ IF op.bg_color[1] = "Some"
              THEN /\ Len(w) = n
                   /\ \A i \in 1..n :
                        w[i] = Pixel(PointAt(box, i - 1),
                                     IF (i - 1) \in set THEN op.color ELSE op.bg_color[2])
              ELSE /\ Len(w) = Cardinality(set)
                   /\ \A i \in set : \E j \in 1..Len(w) : w[j] = Pixel(PointAt(box, i), op.color)
                   /\ \A j \in 1..Len(w) : \E i \in set : w[j] = Pixel(PointAt(box, i), op.color)
                   /\ \A j, k \in 1..Len(w) :
                        (j < k) => \E i1, i2 \in set :
                            /\ i1 < i2
                            /\ w[j].p = PointAt(box, i1)
                            /\ w[k].p = PointAt(box, i2)

\* C5 as amended: the blit rule holds with the bits of each byte taken most significant
\* first; a glyph without area writes nothing and succeeds.
C5_BlitRuleMsbFirst == BlitRule("msb")

\* C5 as stated: the blit rule with the bits of each byte taken least significant first.
C5_BlitRuleLsbFirst == BlitRule("lsb")

\* a 2 x 2 glyph whose bits straddle the two bytes, drawn without a background colour:
\* some of its points are written and some are not
C5_Witness ==
    /\ op.name = "glyph_draw"
    /\ font.glyphs[1].bounding_box.size = Size(2, 2)
    /\ font.glyphs[1].start_index = 6
    /\ op.bg_color = None
    /\ Len(target.writes) \in 1..3
    /\ ret = Ok(<<>>)

(***************************************************************************)
(* C2, C3, C4, C6, C7, C10 (SpecDraw); C8, C9 (Spec).                      *)
(***************************************************************************)
\* the last call was draw_string and it returned Ok
DrawOk == op.name = "draw_string" /\ ret[1] = "Ok"

\* the cursor at which character k of the text of the last call is drawn: the caller's
\* position, moved up by the baseline offset and right by the advances before k
Cursor(k) ==
    Point(op.position.x + AdvanceSum(op.text, k - 1),
          op.position.y - baseline_offset(op.baseline))

\* the colour a decoration selector stands for at the time of the draw
SelectedColor(dc) == IF dc = TextColor THEN style.text_color ELSE dc[2]

\* the fills of character k: the strikethrough row, then the underline row, each one
\* pixel tall and as wide as the advance of the glyph, and none for a selector None
ExpectedFills(k) ==
    LET w == ResolvedGlyph(op.text[k]).device_width
        c == Cursor(k)
    IN  (IF style.strikethrough_color = None THEN <<>>
         ELSE <<Fill(Rectangle(Point(c.x, c.y + baseline_offset("Middle") + 1), Size(w, 1)),
                     SelectedColor(style.strikethrough_color))>>)
        \o
        (IF style.underline_color = None THEN <<>>
         ELSE <<Fill(Rectangle(Point(c.x, c.y + 1), Size(w, 1)),
                     SelectedColor(style.underline_color))>>)

RECURSIVE ExpectedWrites(_)
\* the writes of the first n characters: for each in turn the pixels of its glyph, then
\* its fills, all at its cursor
ExpectedWrites(n) ==
    IF n = 0 THEN <<>>
    ELSE ExpectedWrites(n - 1)
         \o GlyphPixels(ResolvedGlyph(op.text[n]), Cursor(n), style.text_color,
                        style.background_color, font.data)
         \o ExpectedFills(n)

RECURSIVE AllExpectedFills(_)
AllExpectedFills(n) == IF n = 0 THEN <<>> ELSE AllExpectedFills(n - 1) \o ExpectedFills(n)

\* the fills among the writes recorded on the target, in order
RecordedFills == SelectSeq(target.writes, LAMBDA w : w.kind = "fill")

\* C2: the width measure_string reports is the sum of device_width over the resolved
\* glyphs, it is next_position.x - position.x, and it is how far right of the
\* caller's position draw_string ends on a target that never fails.
C2_AdvanceConsistency ==
    LET total == AdvanceSum(op.text, Len(op.text))
    IN  /\ op.name = "measure_string"
            => /\ ret.bounding_box.size.width = total
               /\ ret.next_position.x - op.position.x = total
        /\ (op.name = "draw_string" /\ target.fail_at = 0)
            => /\ ret[1] = "Ok"
               /\ ret[2].x - op.position.x = total
               /\ ret[2].x - op.position.x
                    = measure_string(op.text, op.position, op.baseline).bounding_box.size.width

\* a text with a character the font lacks, drawn to the end: 7 for the glyph of
\* character 1 and 3 for the replacement glyph
C2_Witness ==
    /\ op.name = "draw_string"
    /\ font = FontA
    /\ op.text = <<1, 2>>
    /\ target.fail_at = 0
    /\ ret[1] = "Ok"
    /\ ret[2].x - op.position.x = 10

\* C3: the box measure_string returns for the arguments of a draw_string call is
\* line_height() + font_descent tall and contains what the call writes: the rows from
\* the font ascent to the font descent at the drawn baseline, and every decoration fill.
C3_MeasureCoversDraw ==
    op.name = "draw_string"
    => LET box  == measure_string(op.text, op.position, op.baseline).bounding_box
           top  == box.top_left.y
           y    == op.position.y - baseline_offset(op.baseline)
           InRows(r) == top <= r /\ r < top + box.size.height
       IN  /\ box.size.height = line_height + font.font_descent
           /\ \A i \in 1..Len(target.writes) :
                LET w == target.writes[i]
                IN  IF w.kind = "fill"
                    THEN /\ InRows(w.area.top_left.y)
                         /\ box.top_left.x <= w.area.top_left.x
                         /\ w.area.top_left.x + w.area.size.width
                              <= box.top_left.x + box.size.width
                    ELSE (w.p.y \in (y - font.font_ascent)..(y + font.font_descent - 1))
                            => InRows(w.p.y)

\* C4: when the target fails on its k-th write, draw_string returns that error, the
\* k-1 writes before it are the ones recorded, and no write is attempted after it;
\* when the call needs fewer than k writes it succeeds with all of them recorded.
C4_FailFast ==
    op.name = "draw_string"
    => LET full == ExpectedWrites(Len(op.text))
           k    == target.fail_at
       IN  IF k >= 1 /\ k <= Len(full)
           THEN /\ ret = Err("TargetError")
                /\ target.writes = SubSeq(full, 1, k - 1)
                /\ target.count = k
           ELSE /\ ret[1] = "Ok"
                /\ target.writes = full
                /\ target.count = Len(full)

\* the third write, a strikethrough fill, fails with an underline and a second
\* character still to come: two writes stay recorded and nothing follows
C4_Witness ==
    /\ op.name = "draw_string"
    /\ Len(op.text) = 2
    /\ style.underline_color # None
    /\ style.strikethrough_color # None
    /\ target.fail_at = 3
    /\ ExpectedWrites(1)[3].kind = "fill"
    /\ ret = Err("TargetError")
    /\ Len(target.writes) = 2
    /\ target.count = 3

\* C6: baseline_offset is -(line_height() - 1) for Top, that value halved and
\* truncated toward zero for Middle, 0 for Alphabetic and font_descent for Bottom;
\* with ascent 8, descent 2 and no adjustment line_height() is 8 and the offsets
\* are -7, -3, 0 and 2; draw_string ends at position.y minus the offset.
C6_BaselineOffsets ==
    LET d == -(line_height - 1)
        q == baseline_offset("Middle")
    IN  /\ baseline_offset("Top") = d
        /\ IF d >= 0 THEN 2 * q <= d /\ d <= (2 * q) + 1
                     ELSE (2 * q) - 1 <= d /\ d <= 2 * q
        /\ baseline_offset("Alphabetic") = 0
        /\ baseline_offset("Bottom") = font.font_descent
        /\ (font.font_ascent = 8 /\ font.font_descent = 2 /\ style.height_adjust = 0)
            => /\ line_height = 8
               /\ baseline_offset("Top") = -7
               /\ baseline_offset("Middle") = -3
               /\ baseline_offset("Bottom") = 2
        /\ DrawOk => ret[2].y = op.position.y - baseline_offset(op.baseline)

\* a text drawn on the Middle baseline of the 8/2 font ends three rows below the
\* caller's position
C6_Witness ==
    /\ DrawOk
    /\ font.font_ascent = 8
    /\ font.font_descent = 2
    /\ style.height_adjust = 0
    /\ op.baseline = "Middle"
    /\ Len(op.text) >= 1
    /\ ret[2].y = op.position.y + 3

\* C7: a successful draw_string fills, for each character in turn, one row for an
\* enabled strikethrough at (x, y + baseline_offset(Middle) + 1) and one row for an
\* enabled underline at (x, y + 1), each as wide as the advance of the glyph and one
\* pixel tall, (x, y) being the cursor of the character; a selector None gives no fill.
\* An underlined glyph of advance 7 at (0, 0) on the Alphabetic baseline is filled
\* 7 x 1 at (0, 1).
C7_DecorationGeometry ==
    DrawOk
    => /\ RecordedFills = AllExpectedFills(Len(op.text))
       /\ (style.underline_color = None /\ style.strikethrough_color = None)
            => RecordedFills = <<>>
       /\ (/\ op.text = <<1>>
           /\ font = FontA
           /\ op.position = Point(0, 0)
           /\ op.baseline = "Alphabetic"
           /\ style.underline_color # None
           /\ style.strikethrough_color = None)
            => /\ Len(RecordedFills) = 1
               /\ RecordedFills[1].area = Rectangle(Point(0, 1), Size(7, 1))

\* the example of the claim: the glyph of advance 7, underlined, at (0, 0)
C7_Witness ==
    /\ DrawOk
    /\ op.text = <<1>>
    /\ font = FontA
    /\ op.position = Point(0, 0)
    /\ op.baseline = "Alphabetic"
    /\ style.underline_color # None
    /\ style.strikethrough_color = None
    /\ RecordedFills = <<Fill(Rectangle(Point(0, 1), Size(7, 1)), RecordedFills[1].color)>>

\* C8: whatever builders and setters came before, draw_string fills a decoration whose
\* selector is TextColor with the text colour the style has at the draw, and one
\* whose selector is Custom(c) with c.
C8_DecorationColorAtDraw ==
    DrawOk
    => LET fills == RecordedFills
           want  == AllExpectedFills(Len(op.text))
       IN  /\ Len(fills) = Len(want)
           /\ \A i \in 1..Len(fills) : fills[i].color = want[i].color
           /\ (style.underline_color = TextColor /\ style.strikethrough_color = None)
                => \A i \in 1..Len(fills) : fills[i].color = style.text_color
           /\ (style.strikethrough_color = TextColor /\ style.underline_color = None)
                => \A i \in 1..Len(fills) : fills[i].color = style.text_color

\* an underline in the text colour under a strikethrough in a custom colour that is
\* not the text colour
C8_Witness ==
    /\ DrawOk
    /\ style.underline_color = TextColor
    /\ style.strikethrough_color[1] = "Custom"
    /\ style.strikethrough_color[2] # style.text_color
    /\ Len(RecordedFills) = 2
    /\ RecordedFills[1].color = style.strikethrough_color[2]
    /\ RecordedFills[2].color = style.text_color

\* C9: line_height() is max(0, font_ascent + height_adjust) in every state of a style:
\* font_ascent + height_adjust when that is not negative, 0 when it is.
C9_LineHeightClamped ==
    /\ IF style.height_adjust >= -font.font_ascent
       THEN line_height - style.height_adjust = font.font_ascent
       ELSE line_height = 0
    /\ op.name = "line_height" => ret = line_height

\* C10: a successful draw_string has written, character by character in the order of
\* the text, the pixels of the glyph, then the strikethrough fill, then the underline
\* fill, all at the cursor of the character, and returns the cursor after the last
\* one; measure_string's next_position is as far right and keeps position.y.
C10_DrawOrder ==
    LET total == AdvanceSum(op.text, Len(op.text))
    IN  /\ DrawOk
            => /\ target.writes = ExpectedWrites(Len(op.text))
               /\ ret[2] = Point(op.position.x + total,
                                 op.position.y - baseline_offset(op.baseline))
        /\ op.name = "measure_string"
            => ret.next_position = Point(op.position.x + total, op.position.y)

\* two characters with both decorations: the second glyph's pixels come after the
\* first character's underline, 7 to the right
C10_Witness ==
    /\ DrawOk
    /\ font = FontA
    /\ op.text = <<1, 2>>
    /\ op.baseline = "Top"
    /\ style.underline_color # None
    /\ style.strikethrough_color # None
    /\ style.background_color = None
    /\ Len(target.writes) = 8
    /\ target.writes[4].kind = "fill"
    /\ target.writes[5].kind = "pixel"
    /\ target.writes[5].p.x = op.position.x + 7 + 1
    /\ ret[2].x = op.position.x + 10
====
